---- MODULE Spec2Model ----
(***************************************************************************)
(* A model of the AIShopping backend: the retrying HTTP caller of          *)
(* app/core/gemini.py, the /v1/offers aggregation of                       *)
(* app/api/routes_offers.py, the /v1/identify pipeline of                  *)
(* app/api/routes_identify.py, and the text of the errors both paths       *)
(* return (app/core/gemini.py, app/core/serpapi.py).                       *)
(*                                                                         *)
(* Text is modelled as a sequence of one-character strings, so that        *)
(* trimming, lower-casing, substring tests and number parsing are computed *)
(* the way the Python code computes them.  Durations are in half seconds.  *)
(* Prices are in hundredths.                                               *)
(***************************************************************************)
EXTENDS Integers, Sequences, FiniteSets, TLC

VARIABLES
    \* ---- the resilient caller (_post_with_retry / _get_with_retry)
    call_pc,        \* "idle" | "attempt" | "returned" | "raised"
    call_kind,      \* "post" | "get"
    max_retries,    \* the max_retries argument of the call
    attempt,        \* the loop variable of `for attempt in range(max_retries + 1)`
    requests,       \* number of client.post / client.get calls issued so far
    history,        \* the responses received so far, in order
    wait,           \* the duration of the last asyncio.sleep, in half seconds
    last_resp       \* last_resp / the value returned

callVars == <<call_pc, call_kind, max_retries, attempt, requests, history, wait, last_resp>>

VARIABLES
    \* ---- the /v1/offers handler (offers)
    o_pc,               \* "idle" | "primary" | "costco_shopping" | "costco_web"
                        \*   | "costco_scrape" | "done" | "error"
    num,                \* the num query parameter
    include_membership, \* the include_membership query parameter
    base_results,       \* base_raw["shopping_results"]
    offers_list,        \* offers_list before the dedupe
    costco_url,         \* costco_url of _costco_fallback_offer
    deduped,            \* list(deduped.values())
    ranked,             \* offers_list after the sort
    failed_at,          \* the await that raised: "" | "primary" | "normalize"
                        \*   | "costco_shopping" | "costco_web"
    o_response          \* what the handler answers: [status, offers]

offerVars == <<o_pc, num, include_membership, base_results, offers_list, costco_url,
               deduped, ranked, failed_at, o_response>>

VARIABLES
    \* ---- the /v1/identify handler (identify) and identify_from_image
    i_pc,        \* "idle" | "test_post" | "list_models" | "generate" | "done"
    gemini_cfg,  \* GEMINI_API_KEY set? GEMINI_MODEL configured? the retry ceiling
    reresolved,  \* the 404 branch of identify_from_image has been taken
    exc,         \* the exception the handler caught (NoExc: none)
    model_text,  \* candidates[0].content.parts[0].text of the model's answer
    raw_text,    \* raw_text of the handler
    i_response   \* the HTTP answer of the route

identVars == <<i_pc, gemini_cfg, reresolved, exc, model_text, raw_text, i_response>>

VARIABLES
    \* ---- the text of an error, from the place that raises to the caller
    e_pc,       \* "idle" | "raised" | "answered"
    e_path,     \* "identify" | "offers"
    e_site,     \* the place that raised
    e_status,   \* the status of the upstream's answer
    e_body,     \* r.text of the upstream's answer
    e_message,  \* str(e) of the exception
    e_detail    \* the detail of the HTTPException the caller receives

errVars == <<e_pc, e_path, e_site, e_status, e_body, e_message, e_detail>>

vars == <<callVars, offerVars, identVars, errVars>>

(***************************************************************************)
(* Bounds of the model.                                                    *)
(***************************************************************************)
MaxRetriesBound == 2

(***************************************************************************)
(* Program constants.                                                      *)
(***************************************************************************)
MAX_BACKOFF_SECONDS == 20

(***************************************************************************)
(* Text helpers.                                                           *)
(***************************************************************************)
Digits == {"0", "1", "2", "3", "4", "5", "6", "7", "8", "9"}

DigitVal(c) ==
    CASE c = "0" -> 0 [] c = "1" -> 1 [] c = "2" -> 2 [] c = "3" -> 3
      [] c = "4" -> 4 [] c = "5" -> 5 [] c = "6" -> 6 [] c = "7" -> 7
      [] c = "8" -> 8 [] c = "9" -> 9

RECURSIVE DigitsValue(_)
\* int() of a non-empty string of decimal digits
DigitsValue(s) ==
    IF s = <<>> THEN 0
    ELSE 10 * DigitsValue(SubSeq(s, 1, Len(s) - 1)) + DigitVal(s[Len(s)])

AllDigits(s) == s # <<>> /\ \A i \in 1..Len(s) : s[i] \in Digits

Min(a, b) == IF a <= b THEN a ELSE b
Max(a, b) == IF a >= b THEN a ELSE b

RECURSIVE Pow2(_)
Pow2(n) == IF n = 0 THEN 1 ELSE 2 * Pow2(n - 1)

(***************************************************************************)
(* The resilient caller.                                                   *)
(***************************************************************************)
NoResp == [status |-> 0, retry_after |-> <<>>]

\* the statuses the upstream answers with
Statuses == {200, 404, 429, 500, 503}

\* values of the retry-after header: absent, unparseable, "1", "60"
RetryAfterValues == {<<>>, <<"s">>, <<"1">>, <<"6", "0">>}

Responses == [status : Statuses, retry_after : RetryAfterValues]

\* a loop that retried every error status (not the code)
IsRetryAnyError(status) == status >= 400

\* `resp.status_code in (429, 503)`
IsRetryStatus(status) == status \in {429, 503}

\* a ceiling check that gives up one attempt early
HasRetriesLeftEarly(a, m) == a + 1 < m

\* `if attempt < max_retries`
HasRetriesLeft(a, m) == a < m

\* `range(max_retries + 1)`
AttemptRange(m) == 0 .. m

\* a loop that does not advance
NextAttemptStuck(a) == a

\* the next value `for attempt in range(...)` binds
NextAttempt(a) == a + 1

\* _sleep_for_retry: the set of durations (half seconds) it may sleep for
_sleep_for_retry(resp, a) ==
    IF resp.retry_after # <<>> /\ AllDigits(resp.retry_after)
    THEN {Max(1, Min(2 * DigitsValue(resp.retry_after), 2 * MAX_BACKOFF_SECONDS))}
    ELSE {2 * Min(MAX_BACKOFF_SECONDS, Pow2(a)) + jitter : jitter \in {0, 1}}

\* one pass of the loop body: a request, its response, and what the loop does
RetryStep(resp) ==
    /\ call_pc = "attempt"
    /\ attempt \in AttemptRange(max_retries)
    /\ requests' = requests + 1
    /\ history' = Append(history, resp)
    /\ last_resp' = resp
    /\ IF IsRetryStatus(resp.status) /\ HasRetriesLeft(attempt, max_retries)
       THEN /\ wait' \in _sleep_for_retry(resp, attempt)
            /\ attempt' = NextAttempt(attempt)
            \* `continue`; a loop that runs out returns last_resp
            /\ call_pc' = IF NextAttempt(attempt) \in AttemptRange(max_retries)
                          THEN "attempt" ELSE "returned"
       ELSE /\ call_pc' = "returned"
            /\ UNCHANGED <<wait, attempt>>
    /\ UNCHANGED <<call_kind, max_retries>>

_post_with_retry ==
    /\ call_kind = "post"
    /\ \E resp \in Responses : RetryStep(resp)
    /\ UNCHANGED <<offerVars, identVars, errVars>>

_get_with_retry ==
    /\ call_kind = "get"
    /\ \E resp \in Responses : RetryStep(resp)
    /\ UNCHANGED <<offerVars, identVars, errVars>>

\* client.post / client.get raises (connection error, timeout): not caught
TransportFailure ==
    /\ call_pc = "attempt"
    /\ attempt \in AttemptRange(max_retries)
    /\ requests' = requests + 1
    /\ call_pc' = "raised"
    /\ UNCHANGED <<call_kind, max_retries, attempt, history, wait, last_resp>>
    /\ UNCHANGED <<offerVars, identVars, errVars>>

\* a caller invokes the function with a ceiling
CallBegin(kind, m) ==
    /\ call_pc' = "attempt"
    /\ call_kind' = kind
    /\ max_retries' = m
    /\ attempt' = 0
    /\ requests' = 0
    /\ history' = <<>>
    /\ wait' = 0
    /\ last_resp' = NoResp

CallStart ==
    /\ call_pc = "idle"
    /\ \E kind \in {"post", "get"}, m \in 0..MaxRetriesBound : CallBegin(kind, m)
    /\ UNCHANGED <<offerVars, identVars, errVars>>

CallInit ==
    /\ call_pc = "idle"
    /\ call_kind = "post"
    /\ max_retries = 0
    /\ attempt = 0
    /\ requests = 0
    /\ history = <<>>
    /\ wait = 0
    /\ last_resp = NoResp

CallNext ==
    \/ CallStart
    \/ _post_with_retry
    \/ _get_with_retry
    \/ TransportFailure

(***************************************************************************)
(* More text helpers: Python's str.lower, str.strip, `in`, f"{x:,.2f}".    *)
(***************************************************************************)
\* c.lower() of one character
LowerChar(c) ==
    CASE c = "A" -> "a" [] c = "B" -> "b" [] c = "C" -> "c" [] c = "D" -> "d" [] c = "E" -> "e"
      [] c = "F" -> "f" [] c = "G" -> "g" [] c = "H" -> "h" [] c = "I" -> "i" [] c = "J" -> "j"
      [] c = "K" -> "k" [] c = "L" -> "l" [] c = "M" -> "m" [] c = "N" -> "n" [] c = "O" -> "o"
      [] c = "P" -> "p" [] c = "Q" -> "q" [] c = "R" -> "r" [] c = "S" -> "s" [] c = "T" -> "t"
      [] c = "U" -> "u" [] c = "V" -> "v" [] c = "W" -> "w" [] c = "X" -> "x" [] c = "Y" -> "y"
      [] c = "Z" -> "z"
      [] OTHER -> c

\* s.lower()
Lower(s) == [i \in 1..Len(s) |-> LowerChar(s[i])]

WhiteSpace == {" ", "\t", "\n"}

RECURSIVE LStrip(_)
LStrip(s) == IF s # <<>> /\ s[1] \in WhiteSpace THEN LStrip(Tail(s)) ELSE s

RECURSIVE RStrip(_)
RStrip(s) ==
    IF s # <<>> /\ s[Len(s)] \in WhiteSpace THEN RStrip(SubSeq(s, 1, Len(s) - 1)) ELSE s

\* s.strip()
Strip(s) == RStrip(LStrip(s))

\* `sub in s`
Contains(s, sub) ==
    \E i \in 1..(Len(s) - Len(sub) + 1) : SubSeq(s, i, i + Len(sub) - 1) = sub

\* the length of the longest prefix of s, from position i, made of characters of set
RECURSIVE RunEnd(_, _, _)
RunEnd(s, i, set) == IF i <= Len(s) /\ s[i] \in set THEN RunEnd(s, i + 1, set) ELSE i

\* s without its characters in set
RECURSIVE Without(_, _)
Without(s, set) ==
    IF s = <<>> THEN <<>>
    ELSE (IF s[1] \in set THEN <<>> ELSE <<s[1]>>) \o Without(Tail(s), set)

DigitChar(n) == <<"0", "1", "2", "3", "4", "5", "6", "7", "8", "9">>[n + 1]

RECURSIVE NatDigits(_)
\* str(n) of a natural number
NatDigits(n) ==
    IF n < 10 THEN <<DigitChar(n)>> ELSE NatDigits(n \div 10) \o <<DigitChar(n % 10)>>

RECURSIVE Grouped(_)
\* the "," grouping of the format specification ",.2f"
Grouped(d) ==
    IF Len(d) <= 3 THEN d
    ELSE Grouped(SubSeq(d, 1, Len(d) - 3)) \o <<",">> \o SubSeq(d, Len(d) - 2, Len(d))

\* f"${pv:,.2f}" of a price in hundredths
FormatPrice(pv) ==
    <<"$">> \o Grouped(NatDigits(pv \div 100)) \o <<".">>
            \o <<DigitChar((pv % 100) \div 10), DigitChar(pv % 10)>>

(***************************************************************************)
(* JSON values of a result row, and the fields of an OfferItem: a tag, and *)
(* the text or the number the value carries.                               *)
(***************************************************************************)
Absent == [t |-> "absent", s |-> <<>>, n |-> 0]   \* the key is not in the row
Null == [t |-> "null", s |-> <<>>, n |-> 0]       \* None
Str(s) == [t |-> "str", s |-> s, n |-> 0]
Num(n) == [t |-> "num", s |-> <<>>, n |-> n]
Obj == [t |-> "obj", s |-> <<>>, n |-> 0]         \* a nested dict

\* r.get(k)
Get(r, k) == IF r[k].t = "absent" THEN Null ELSE r[k]

\* r.get(k, default)
GetDefault(r, k, default) == IF r[k].t = "absent" THEN default ELSE r[k]

\* bool(v) of Python
Truthy(v) ==
    CASE v.t = "str" -> v.s # <<>>
      [] v.t = "num" -> v.n # 0
      [] v.t = "obj" -> TRUE
      [] OTHER -> FALSE

\* `v or ''` of an optional string
OrEmpty(v) == IF v.t = "str" THEN v.s ELSE <<>>

(***************************************************************************)
(* PriceParser: _parse_price_value, _extract_price_fields.                 *)
(***************************************************************************)
\* the hundredths a fraction-digit string stands for (at most two digits kept)
FracHundredths(f) ==
    IF Len(f) = 0 THEN 0
    ELSE IF Len(f) = 1 THEN 10 * DigitVal(f[1])
    ELSE 10 * DigitVal(f[1]) + DigitVal(f[2])

\* float(m.group(1).replace(",", "")) for the match of (\d[\d,]*\.?\d*) at i
PriceTokenValue(s, i) ==
    LET j == RunEnd(s, i, Digits \cup {","})
        k == IF j <= Len(s) /\ s[j] = "." THEN j + 1 ELSE j
        e == RunEnd(s, k, Digits)
    IN  100 * DigitsValue(Without(SubSeq(s, i, j - 1), {","}))
          + FracHundredths(SubSeq(s, k, e - 1))

\* _parse_price_value of a text: Null, or the number in hundredths
ParseText(s) ==
    IF \E i \in 1..Len(s) : s[i] \in Digits
    THEN Num(PriceTokenValue(s, CHOOSE i \in 1..Len(s) :
                /\ s[i] \in Digits
                /\ \A h \in 1..(i - 1) : s[h] \notin Digits))
    ELSE Null

\* _parse_price_value(price): str(price) of a number is its digits
_parse_price_value(price) ==
    IF ~Truthy(price) THEN Null
    ELSE IF price.t = "str" THEN ParseText(price.s)
    ELSE IF price.t = "num" THEN Num(price.n)
    ELSE Null

\* the first of the keys whose value is a number
FirstNumber(r, keys) ==
    IF \E i \in 1..Len(keys) : r[keys[i]].t = "num"
    THEN r[keys[CHOOSE i \in 1..Len(keys) :
             /\ r[keys[i]].t = "num"
             /\ \A h \in 1..(i - 1) : r[keys[h]].t # "num"]]
    ELSE Null

\* _extract_price_fields: <<price_str, price_val>>
_extract_price_fields(r) ==
    LET price_str == Get(r, "price")
        numeric == FirstNumber(r, <<"extracted_price", "price_extracted">>)
    IN  <<price_str, IF numeric.t = "num" THEN numeric ELSE _parse_price_value(price_str)>>

\* the first of the keys whose value is a non-blank string, stripped
FirstString(r, keys) ==
    IF \E i \in 1..Len(keys) : r[keys[i]].t = "str" /\ Strip(r[keys[i]].s) # <<>>
    THEN Str(Strip(r[keys[CHOOSE i \in 1..Len(keys) :
             /\ r[keys[i]].t = "str" /\ Strip(r[keys[i]].s) # <<>>
             /\ \A h \in 1..(i - 1) :
                    ~(r[keys[h]].t = "str" /\ Strip(r[keys[h]].s) # <<>>)]].s))
    ELSE Null

_extract_link(r) == FirstString(r, <<"link", "product_link", "productLink", "merchant_link">>)

_extract_source(r) == FirstString(r, <<"source", "merchant", "seller", "store">>)

(***************************************************************************)
(* OfferItem (app/schemas/offers.py): the pydantic model validates its     *)
(* fields on construction and raises when one has the wrong type.          *)
(***************************************************************************)
\* Optional[str]
ValidOptStr(v) == v.t \in {"null", "str"}

\* Optional[float] / Optional[int]: a number, or a string of digits (coerced)
ValidOptNum(v) == v.t \in {"null", "num"} \/ (v.t = "str" /\ AllDigits(v.s))

CoerceNum(v) == IF v.t = "str" THEN Num(DigitsValue(v.s)) ELSE v

\* OfferItem(...): [ok |-> FALSE] stands for the ValidationError
OfferItem(title, price, price_value, source, link, thumbnail, delivery, rating, reviews) ==
    [ok |-> /\ title.t = "str"
            /\ ValidOptStr(price)
            /\ ValidOptNum(price_value)
            /\ ValidOptStr(source)
            /\ ValidOptStr(link)
            /\ ValidOptStr(thumbnail)
            /\ ValidOptStr(delivery)
            /\ ValidOptNum(rating)
            /\ ValidOptNum(reviews),
     item |-> [title |-> title, price |-> price, price_value |-> CoerceNum(price_value),
               source |-> source, link |-> link, thumbnail |-> thumbnail,
               delivery |-> delivery, rating |-> CoerceNum(rating),
               reviews |-> CoerceNum(reviews)]]

T_Unknown == <<"U", "n", "k", "n", "o", "w", "n">>
T_costco == <<"c", "o", "s", "t", "c", "o">>
T_Costco == <<"C", "o", "s", "t", "c", "o">>
T_costco_com == <<"c", "o", "s", "t", "c", "o", ".", "c", "o", "m">>
T_Costco_offer == <<"C", "o", "s", "t", "c", "o", " ", "o", "f", "f", "e", "r">>
T_Costco_page ==
    <<"C", "o", "s", "t", "c", "o", " ", "(", "m", "e", "m", "b", "e", "r", "s", "h", "i",
      "p", ")", " ", "-", " ", "p", "r", "o", "d", "u", "c", "t", " ", "p", "a", "g", "e">>

\* the OfferItem the loop of offers builds from one row of the primary search
RowOffer(r) ==
    LET pf == _extract_price_fields(r)
    IN  OfferItem(GetDefault(r, "title", Str(T_Unknown)), pf[1], pf[2],
                  _extract_source(r), _extract_link(r), Get(r, "thumbnail"),
                  Get(r, "delivery"), Get(r, "rating"), Get(r, "reviews"))

\* the loop `for r in base_results`: the offers, or the first row that raises
NormalizeRows(rows) ==
    LET built == [i \in 1..Len(rows) |-> RowOffer(rows[i])]
    IN  [ok |-> \A i \in 1..Len(rows) : built[i].ok,
         offers |-> [i \in 1..Len(rows) |-> built[i].item]]

\* "costco" in (o.source or "").lower()
IsCostco(o) == Contains(Lower(OrEmpty(o.source)), T_costco)

\* has_costco
HasCostco(list) == \E i \in 1..Len(list) : IsCostco(list[i])

(***************************************************************************)
(* Dedupe, sort, truncate (offers).                                        *)
(***************************************************************************)
\* a key that compares title and source as they are
KeyVerbatim(o) ==
    IF Truthy(o.link)
    THEN <<"l", "i", "n", "k", ":", ":">> \o o.link.s
    ELSE <<"t", "i", "t", "l", "e", ":", ":">> \o OrEmpty(o.title)
           \o <<":", ":", "s", "r", "c", ":", ":">> \o OrEmpty(o.source)

\* _key_for_dedupe
_key_for_dedupe(o) ==
    IF Truthy(o.link)
    THEN <<"l", "i", "n", "k", ":", ":">> \o o.link.s
    ELSE <<"t", "i", "t", "l", "e", ":", ":">> \o Lower(Strip(OrEmpty(o.title)))
           \o <<":", ":", "s", "r", "c", ":", ":">> \o Lower(Strip(OrEmpty(o.source)))

\* a test that lets every priced duplicate replace the kept one
ReplacesWhenPriced(existing, o) == o.price_value.t # "null"

\* `existing.price_value is None and o.price_value is not None`
ReplacesExisting(existing, o) == existing.price_value.t = "null" /\ o.price_value.t # "null"

\* the position of key k in the insertion-ordered dict d (0: not in it)
KeyIndex(d, k) ==
    IF \E i \in 1..Len(d) : d[i].k = k THEN CHOOSE i \in 1..Len(d) : d[i].k = k ELSE 0

\* one pass of `for o in offers_list` over the dict deduped
DedupeStep(d, o) ==
    LET k == _key_for_dedupe(o)
        at == KeyIndex(d, k)
    IN  IF at = 0 THEN Append(d, [k |-> k, o |-> o])
        ELSE IF ReplacesExisting(d[at].o, o) THEN [d EXCEPT ![at] = [k |-> k, o |-> o]]
        ELSE d

RECURSIVE DedupeDict(_)
DedupeDict(list) ==
    IF list = <<>> THEN <<>>
    ELSE DedupeStep(DedupeDict(SubSeq(list, 1, Len(list) - 1)), list[Len(list)])

\* list(deduped.values())
Dedupe(list) == LET d == DedupeDict(list) IN [i \in 1..Len(d) |-> d[i].o]

\* a sort key without the `is None` component
SortKeyValueOnly(o) == <<0, IF o.price_value.t = "null" THEN 0 ELSE o.price_value.n>>

\* the sort key: (o.price_value is None, o.price_value or 0.0)
SortKey(o) ==
    <<IF o.price_value.t = "null" THEN 1 ELSE 0,
      IF o.price_value.t = "null" THEN 0 ELSE o.price_value.n>>

\* tuple comparison of two sort keys
KeyLess(a, b) == a[1] < b[1] \/ (a[1] = b[1] /\ a[2] < b[2])

\* list.sort is stable: x goes after every element whose key is not greater
RECURSIVE InsertStable(_, _)
InsertStable(sorted, x) ==
    IF sorted = <<>> THEN <<x>>
    ELSE IF KeyLess(SortKey(x), SortKey(sorted[Len(sorted)]))
    THEN Append(InsertStable(SubSeq(sorted, 1, Len(sorted) - 1), x), sorted[Len(sorted)])
    ELSE Append(sorted, x)

RECURSIVE SortOffers(_)
SortOffers(list) ==
    IF list = <<>> THEN <<>>
    ELSE InsertStable(SortOffers(SubSeq(list, 1, Len(list) - 1)), list[Len(list)])

\* n = max(1, min(int(num), 50))
ResultCount(n) == Max(1, Min(n, 50))

\* offers_list[:n]
Truncate(list, n) == SubSeq(list, 1, Min(Len(list), ResultCount(n)))

(***************************************************************************)
(* The SerpAPI searches (app/core/serpapi.py) and the Costco fallback.     *)
(***************************************************************************)
\* shopping_search / google_search raise ValueError when the key is not set,
\* when raise_for_status() fails, or when the JSON body has an "error" field
SearchRaises(reply) == ~reply.key_set \/ reply.status >= 400 \/ reply.error

PlausibleMin == 10
PlausibleMax == 20000

\* _plausible_price, of a price in hundredths
_plausible_price(x) == 100 * PlausibleMin <= x /\ x <= 100 * PlausibleMax

\* whether \$\s?(\d[\d,]*\.\d{2}) matches s at position i
DollarAt(s, i) ==
    LET d == IF i + 1 <= Len(s) /\ s[i + 1] \in WhiteSpace THEN i + 2 ELSE i + 1
        e == RunEnd(s, d, Digits \cup {","})
    IN  /\ s[i] = "$"
        /\ d <= Len(s) /\ s[d] \in Digits
        /\ e + 2 <= Len(s)
        /\ s[e] = "." /\ s[e + 1] \in Digits /\ s[e + 2] \in Digits

\* m.group(0) of the match at i
DollarGroup(s, i) ==
    LET d == IF i + 1 <= Len(s) /\ s[i + 1] \in WhiteSpace THEN i + 2 ELSE i + 1
        e == RunEnd(s, d, Digits \cup {","})
    IN  SubSeq(s, i, e + 2)

\* re.search(r"\$\s?(\d[\d,]*\.\d{2})", text): the leftmost match, parsed
DollarPrice(s) ==
    IF \E i \in 1..Len(s) : DollarAt(s, i)
    THEN ParseText(DollarGroup(s, CHOOSE i \in 1..Len(s) :
                DollarAt(s, i) /\ \A h \in 1..(i - 1) : ~DollarAt(s, h)))
    ELSE Null

\* _extract_price_from_serpapi_organic_result, for a result whose price text is in
\* its snippet (the results modelled carry no extensions and no rich_snippet)
_extract_price_from_serpapi_organic_result(r) ==
    LET snippet == r.snippet
        pv == IF snippet.t = "str" /\ Strip(snippet.s) # <<>>
              THEN DollarPrice(snippet.s) ELSE Null
    IN  IF pv.t = "num" /\ _plausible_price(pv.n) THEN pv ELSE Null

\* _fetch_costco_price: <<price_str, price_val>> of what the product page held
_fetch_costco_price(page) ==
    IF page.status = 200 /\ page.price.t = "num" /\ _plausible_price(page.price.n)
    THEN <<Str(FormatPrice(page.price.n)), page.price>>
    ELSE <<Null, Null>>

\* the test of _costco_from_serpapi_shopping on one row
CostcoRow(r) ==
    \/ Contains(Lower(OrEmpty(_extract_source(r))), T_costco)
    \/ Contains(Lower(OrEmpty(Get(r, "title"))), T_costco)
    \/ Contains(Lower(OrEmpty(_extract_link(r))), T_costco_com)

\* the OfferItem _costco_from_serpapi_shopping builds from a row
CostcoRowOffer(r) ==
    LET pf == _extract_price_fields(r)
        src == _extract_source(r)
    IN  OfferItem(GetDefault(r, "title", Str(T_Costco_offer)), pf[1], pf[2],
                  IF Truthy(src) THEN src ELSE Str(T_Costco), _extract_link(r),
                  Get(r, "thumbnail"), Get(r, "delivery"), Get(r, "rating"),
                  Get(r, "reviews"))

\* _costco_from_serpapi_shopping on the rows of the search: the first row that
\* passes the test and has a price (0: none, and the function returns None)
_costco_from_serpapi_shopping(results) ==
    LET hit(i) == CostcoRow(results[i]) /\ _extract_price_fields(results[i])[2].t # "null"
    IN  IF \E i \in 1..Len(results) : hit(i)
        THEN CHOOSE i \in 1..Len(results) : hit(i) /\ \A h \in 1..(i - 1) : ~hit(h)
        ELSE 0

\* the first organic result whose link is a string holding "costco.com" (0: none)
CostcoResult(organic) ==
    LET hit(i) == organic[i].link.t = "str" /\ Contains(organic[i].link.s, T_costco_com)
    IN  IF \E i \in 1..Len(organic) : hit(i)
        THEN CHOOSE i \in 1..Len(organic) : hit(i) /\ \A h \in 1..(i - 1) : ~hit(h)
        ELSE 0

\* the membership offer of steps 2a and 3 of _costco_fallback_offer
MembershipOffer(price_str, price_val, url) ==
    OfferItem(Str(T_Costco_page), price_str, price_val, Str(T_Costco), url,
              Null, Null, Null, Null)

(***************************************************************************)
(* The inputs of the offers model: the rows the upstream may answer with.  *)
(***************************************************************************)
MaxRows == 3        \* rows of the primary search

\* values of the num parameter: clamped up to 1, cutting the list, the default
Nums == {0, 2, 10}

RowKeys ==
    {"title", "price", "extracted_price", "price_extracted", "source", "merchant",
     "seller", "store", "link", "product_link", "productLink", "merchant_link",
     "thumbnail", "delivery", "rating", "reviews"}

BlankRow == [k \in RowKeys |-> Absent]

L_a == <<"a", "/", "1">>
L_c == <<"c", "/", "1">>
L_costco == <<"c", "o", "s", "t", "c", "o", ".", "c", "o", "m", "/", "p">>
L_shop == <<"s", "h", "o", "p", ".", "c", "o", "m", "/", "p">>
S_Acme == <<"A", "c", "m", "e">>
S_Best == <<"B", "e", "s", "t">>
S_best_sp == <<"b", "e", "s", "t", " ">>

\* {"title":"W","price":"$5","source":"Acme","link":"a/1"}
RowPricedLink ==
    [BlankRow EXCEPT !["title"] = Str(<<"W">>), !["price"] = Str(<<"$", "5">>),
                     !["source"] = Str(S_Acme), !["link"] = Str(L_a)]
\* the same listing without a price; its link ends with a blank
RowUnpricedLink ==
    [BlankRow EXCEPT !["title"] = Str(<<"W">>), !["source"] = Str(S_Acme),
                     !["link"] = Str(L_a \o <<" ">>)]
\* the same link again, with another title and price
RowPricedLink2 ==
    [BlankRow EXCEPT !["title"] = Str(<<"X">>), !["price"] = Str(<<"$", "4", ".", "5">>),
                     !["source"] = Str(S_Acme), !["link"] = Str(L_a)]
\* no link; the merchant under the key "merchant"; same price as RowPricedLink
RowNoLink ==
    [BlankRow EXCEPT !["title"] = Str(<<"B">>), !["price"] = Str(<<"$", "5">>),
                     !["merchant"] = Str(S_Best), !["rating"] = Num(4)]
\* no link; title and source equal to RowNoLink's up to case and blanks
RowNoLink2 ==
    [BlankRow EXCEPT !["title"] = Str(<<" ", "b">>), !["price"] = Str(<<"$", "3">>),
                     !["source"] = Str(S_best_sp), !["rating"] = Num(5)]
\* a Costco listing in the primary results
RowCostco ==
    [BlankRow EXCEPT !["title"] = Str(<<"K">>), !["price"] = Str(<<"$", "7">>),
                     !["source"] = Str(T_Costco), !["link"] = Str(L_c)]
\* "title": null
RowNullTitle ==
    [BlankRow EXCEPT !["title"] = Null, !["price"] = Str(<<"$", "5">>),
                     !["source"] = Str(S_Acme)]

\* the link of RowPricedLink in upper case
RowUpperLink ==
    [BlankRow EXCEPT !["title"] = Str(<<"W">>), !["price"] = Str(<<"$", "6">>),
                     !["source"] = Str(S_Acme), !["link"] = Str(<<"A", "/", "1">>)]
\* no "title" member
RowNoTitle ==
    [BlankRow EXCEPT !["price"] = Str(<<"$", "8">>), !["source"] = Str(S_Acme),
                     !["link"] = Str(<<"n">>)]
\* "price": "$5" and "extracted_price": 4.0
RowExtracted ==
    [BlankRow EXCEPT !["title"] = Str(<<"E">>), !["price"] = Str(<<"$", "5">>),
                     !["extracted_price"] = Num(400), !["source"] = Str(S_Acme),
                     !["link"] = Str(<<"e">>)]

RowPool == {RowPricedLink, RowUnpricedLink, RowPricedLink2, RowNoLink, RowNoLink2,
            RowCostco, RowNullTitle, RowUpperLink, RowNoTitle, RowExtracted}

\* rows of the "<q> Costco" shopping search
CostcoRowUnpriced ==
    [BlankRow EXCEPT !["title"] = Str(<<"K">>), !["source"] = Str(T_Costco),
                     !["link"] = Str(L_c)]
CostcoRowByLink ==
    [BlankRow EXCEPT !["extracted_price"] = Num(900), !["link"] = Str(L_costco)]

\* the row lists the "<q> Costco" shopping search answers with
CostcoShoppingResults ==
    {<<>>, <<RowCostco>>, <<CostcoRowUnpriced>>, <<CostcoRowByLink>>, <<RowPricedLink>>,
     <<CostcoRowUnpriced, RowCostco>>}

OrganicPriced == [link |-> Str(L_costco), snippet |-> Str(<<"$", "1", "2", ".", "0", "0">>)]
OrganicNoPrice == [link |-> Str(L_costco), snippet |-> Str(<<"n", "o">>)]
OrganicCheap == [link |-> Str(L_costco), snippet |-> Str(<<"$", "5", ".", "0", "0">>)]
OrganicOther == [link |-> Str(L_shop), snippet |-> Str(<<"$", "1", "2", ".", "0", "0">>)]

\* the organic results the "site:costco.com <q>" web search answers with
OrganicResults ==
    {<<>>, <<OrganicPriced>>, <<OrganicNoPrice>>, <<OrganicCheap>>, <<OrganicOther>>,
     <<OrganicOther, OrganicNoPrice>>}

\* what the Costco product page answers: a status and the price found in it
PagePool ==
    {[status |-> 200, price |-> Num(1500)], [status |-> 200, price |-> Null],
     [status |-> 200, price |-> Num(500)], [status |-> 403, price |-> Null]}

SeqsUpTo(S, n) == UNION {[1..k -> S] : k \in 0..n}

\* "shopping_results" of the primary search: at most MaxRows rows of the
\* pool, no row twice
PrimaryResults ==
    {rows \in SeqsUpTo(RowPool, MaxRows) :
        \A i, j \in 1..Len(rows) : rows[i] = rows[j] => i = j}

\* a failed search carries no rows
FailedReplies ==
    {[key_set |-> FALSE, status |-> 0, error |-> FALSE, results |-> <<>>],
     [key_set |-> TRUE, status |-> 429, error |-> FALSE, results |-> <<>>],
     [key_set |-> TRUE, status |-> 200, error |-> TRUE, results |-> <<>>]}

GoodReplies(lists) ==
    {[key_set |-> TRUE, status |-> 200, error |-> FALSE, results |-> rows] : rows \in lists}

(***************************************************************************)
(* The /v1/offers handler.  It is cut at its awaits: the primary search,   *)
(* the two supplementary searches and the fetch of the Costco page.        *)
(***************************************************************************)
\* `except Exception as e: raise HTTPException(status_code=422, ...)`
OffersRaise(stage) ==
    /\ o_pc' = "error"
    /\ failed_at' = stage
    /\ o_response' = [status |-> 422, offers |-> <<>>]
    /\ UNCHANGED <<deduped, ranked>>

\* a handler that cuts the list before the dedupe and the sort
OffersFinishCutFirst(list) ==
    /\ offers_list' = list
    /\ deduped' = Dedupe(Truncate(list, num))
    /\ ranked' = SortOffers(deduped')
    /\ o_response' = [status |-> 200, offers |-> ranked']
    /\ o_pc' = "done"
    /\ UNCHANGED failed_at

\* from the dedupe to the return of OffersResponse
OffersFinish(list) ==
    /\ offers_list' = list
    /\ deduped' = Dedupe(list)
    /\ ranked' = SortOffers(deduped')
    /\ o_response' = [status |-> 200, offers |-> Truncate(ranked', num)]
    /\ o_pc' = "done"
    /\ UNCHANGED failed_at

\* a request GET /v1/offers?q=..&num=..&include_membership=..
OffersRequest ==
    /\ o_pc = "idle"
    /\ \E n \in Nums, m \in BOOLEAN :
          /\ num' = n
          /\ include_membership' = m
    /\ o_pc' = "primary"
    /\ UNCHANGED <<base_results, offers_list, costco_url, deduped, ranked, failed_at,
                   o_response>>
    /\ UNCHANGED <<callVars, identVars, errVars>>

\* the primary shopping_search returns or raises; the rows are normalized
OffersPrimary ==
    /\ o_pc = "primary"
    /\ \E reply \in GoodReplies(PrimaryResults) \cup FailedReplies :
          IF SearchRaises(reply)
          THEN OffersRaise("primary") /\ UNCHANGED <<base_results, offers_list>>
          ELSE /\ base_results' = reply.results
               /\ LET norm == NormalizeRows(reply.results)
                  IN  IF ~norm.ok
                      THEN OffersRaise("normalize") /\ UNCHANGED offers_list
                      ELSE IF include_membership /\ ~HasCostco(norm.offers)
                      THEN /\ offers_list' = norm.offers
                           /\ o_pc' = "costco_shopping"
                           /\ UNCHANGED <<deduped, ranked, failed_at, o_response>>
                      ELSE OffersFinish(norm.offers)
    /\ UNCHANGED <<num, include_membership, costco_url>>
    /\ UNCHANGED <<callVars, identVars, errVars>>

\* _costco_fallback_offer, step 1: the "<q> Costco" shopping search
OffersCostcoShopping ==
    /\ o_pc = "costco_shopping"
    /\ \E reply \in GoodReplies(CostcoShoppingResults) \cup FailedReplies :
          IF SearchRaises(reply)
          THEN OffersRaise("costco_shopping") /\ UNCHANGED offers_list
          ELSE LET at == _costco_from_serpapi_shopping(reply.results)
               IN  IF at = 0
                   THEN /\ o_pc' = "costco_web"
                        /\ UNCHANGED <<offers_list, deduped, ranked, failed_at, o_response>>
                   ELSE IF ~CostcoRowOffer(reply.results[at]).ok
                   THEN OffersRaise("normalize") /\ UNCHANGED offers_list
                   ELSE OffersFinish(Append(offers_list, CostcoRowOffer(reply.results[at]).item))
    /\ UNCHANGED <<num, include_membership, base_results, costco_url>>
    /\ UNCHANGED <<callVars, identVars, errVars>>

\* _costco_fallback_offer, steps 2 and 2a: the "site:costco.com <q>" web search
OffersCostcoWeb ==
    /\ o_pc = "costco_web"
    /\ \E reply \in GoodReplies(OrganicResults) \cup FailedReplies :
          IF SearchRaises(reply)
          THEN OffersRaise("costco_web") /\ UNCHANGED <<offers_list, costco_url>>
          ELSE LET at == CostcoResult(reply.results)
               IN  IF at = 0
                   THEN \* `if not costco_result: return None`
                        OffersFinish(offers_list) /\ UNCHANGED costco_url
                   ELSE LET pv == _extract_price_from_serpapi_organic_result(reply.results[at])
                            url == reply.results[at].link
                        IN  IF pv.t = "num"
                            THEN /\ OffersFinish(Append(offers_list,
                                      MembershipOffer(Str(FormatPrice(pv.n)), pv, url).item))
                                 /\ UNCHANGED costco_url
                            ELSE /\ costco_url' = url
                                 /\ o_pc' = "costco_scrape"
                                 /\ UNCHANGED <<offers_list, deduped, ranked, failed_at,
                                                o_response>>
    /\ UNCHANGED <<num, include_membership, base_results>>
    /\ UNCHANGED <<callVars, identVars, errVars>>

\* _costco_fallback_offer, step 3: the Costco page is fetched, and never raises
OffersCostcoScrape ==
    /\ o_pc = "costco_scrape"
    /\ \E page \in PagePool :
          LET pf == _fetch_costco_price(page)
          IN  OffersFinish(Append(offers_list, MembershipOffer(pf[1], pf[2], costco_url).item))
    /\ UNCHANGED <<num, include_membership, base_results, costco_url>>
    /\ UNCHANGED <<callVars, identVars, errVars>>

OffersInit ==
    /\ o_pc = "idle"
    /\ num = 0
    /\ include_membership = FALSE
    /\ base_results = <<>>
    /\ offers_list = <<>>
    /\ costco_url = Null
    /\ deduped = <<>>
    /\ ranked = <<>>
    /\ failed_at = ""
    /\ o_response = [status |-> 0, offers |-> <<>>]

OffersNext ==
    \/ OffersRequest
    \/ OffersPrimary
    \/ OffersCostcoShopping
    \/ OffersCostcoWeb
    \/ OffersCostcoScrape

(***************************************************************************)
(* Model text and JSON.  The text the model answers with is a sequence of  *)
(* tokens: braces, the ```json and ``` fences, white space, prose, a       *)
(* member "key": scalar, and a key "key": that an object follows.  Commas  *)
(* are left out: members stand side by side.                               *)
(***************************************************************************)
TOpen == [k |-> "{", key |-> "", v |-> Null]
TClose == [k |-> "}", key |-> "", v |-> Null]
TFence == [k |-> "F", key |-> "", v |-> Null]     \* ```json
TFenceEnd == [k |-> "E", key |-> "", v |-> Null]  \* ```
TSpace == [k |-> "w", key |-> "", v |-> Null]
TProse == [k |-> "x", key |-> "", v |-> Null]
TMember(key, v) == [k |-> "m", key |-> key, v |-> v]
TKey(key) == [k |-> "k", key |-> key, v |-> Null]

EmptyList == [t |-> "list", s |-> <<>>, n |-> 0]   \* []

\* the keys of IdentifyResponse and ProductCandidate, in the order json.dumps
\* writes them here
JsonKeys == <<"primary", "candidates", "notes", "name", "canonical_query", "confidence">>

KeySet == {JsonKeys[i] : i \in 1..Len(JsonKeys)}

BlankMembers == [key \in KeySet |-> Absent]

\* a parsed object: its members, and the members of the object under "primary"
BlankObject == [m |-> BlankMembers, sub |-> BlankMembers]

ParseFail == [ok |-> FALSE, next |-> 0, obj |-> BlankObject]

RECURSIVE SkipSpace(_, _)
SkipSpace(toks, i) ==
    IF i <= Len(toks) /\ toks[i].k = "w" THEN SkipSpace(toks, i + 1) ELSE i

RECURSIVE ParseMembers(_, _, _)
\* the members of an object whose "{" is before position i, up to its "}"
ParseMembers(toks, i, acc) ==
    IF i > Len(toks) THEN ParseFail
    ELSE IF toks[i].k = "w" THEN ParseMembers(toks, i + 1, acc)
    ELSE IF toks[i].k = "}" THEN [ok |-> TRUE, next |-> i + 1, obj |-> acc]
    ELSE IF toks[i].k = "m"
    THEN ParseMembers(toks, i + 1, [acc EXCEPT !.m[toks[i].key] = toks[i].v])
    ELSE IF toks[i].k = "k"
    THEN LET a == SkipSpace(toks, i + 1)
             inner == ParseMembers(toks, a + 1, BlankObject)
         IN  IF a <= Len(toks) /\ toks[a].k = "{" /\ inner.ok
             THEN ParseMembers(toks, inner.next,
                      [m |-> [acc.m EXCEPT ![toks[i].key] = Obj],
                       sub |-> IF toks[i].key = "primary" THEN inner.obj.m ELSE acc.sub])
             ELSE ParseFail
    ELSE ParseFail

\* json.loads(text): [ok |-> FALSE] stands for the JSONDecodeError
Loads(toks) ==
    LET a == SkipSpace(toks, 1)
        r == ParseMembers(toks, a + 1, BlankObject)
    IN  IF a <= Len(toks) /\ toks[a].k = "{" /\ r.ok /\ SkipSpace(toks, r.next) = Len(toks) + 1
        THEN [ok |-> TRUE, obj |-> r.obj]
        ELSE [ok |-> FALSE, obj |-> BlankObject]

RECURSIVE DumpMembers(_, _, _)
\* the tokens of the members m, for the keys from position i of JsonKeys on
DumpMembers(m, sub, i) ==
    IF i > Len(JsonKeys) THEN <<>>
    ELSE LET key == JsonKeys[i]
             here == IF m[key].t = "absent" THEN <<>>
                     ELSE IF m[key].t = "obj"
                     THEN <<TKey(key), TOpen>>
                          \o (IF key = "primary" THEN DumpMembers(sub, BlankMembers, 1)
                              ELSE <<>>)
                          \o <<TClose>>
                     ELSE <<TMember(key, m[key])>>
         IN  here \o DumpMembers(m, sub, i + 1)

\* json.dumps(obj, ensure_ascii=False)
Dumps(obj) == <<TOpen>> \o DumpMembers(obj.m, obj.sub, 1) \o <<TClose>>

(***************************************************************************)
(* _extract_json_best_effort (gemini.py) / extract_json (routes_identify). *)
(***************************************************************************)
\* the first position from i on that holds a token of kind k (0: none)
FirstOf(toks, i, kinds) ==
    IF \E j \in i..Len(toks) : toks[j].k \in kinds
    THEN CHOOSE j \in i..Len(toks) :
            toks[j].k \in kinds /\ \A h \in i..(j - 1) : toks[h].k \notin kinds
    ELSE 0

\* whether ```json\s*(\{.*?\})\s*``` matches from the fence at i with its group
\* ending at the "}" at j; the closing ``` may be the start of another ```json
FencedAt(toks, i, j) ==
    LET a == SkipSpace(toks, i + 1)
        b == SkipSpace(toks, j + 1)
    IN  /\ toks[i].k = "F"
        /\ a <= Len(toks) /\ toks[a].k = "{"
        /\ j > a /\ toks[j].k = "}"
        /\ b <= Len(toks) /\ toks[b].k \in {"E", "F"}

\* re.search of the fenced pattern: <<start, end>> of group 1, <<0, 0>>: no match
FencedGroup(toks) ==
    LET N == 1..Len(toks)
        starts == {i \in N : \E j \in N : FencedAt(toks, i, j)}
    IN  IF starts = {} THEN <<0, 0>>
        ELSE LET i == CHOOSE x \in starts : \A y \in starts : x <= y
                 ends == {j \in N : FencedAt(toks, i, j)}
             IN  <<SkipSpace(toks, i + 1), CHOOSE x \in ends : \A y \in ends : x <= y>>

RECURSIVE Blocks(_, _)
\* re.findall(r"\{.*?\}", text): the matches from position p on, as <<start, end>>
Blocks(toks, p) ==
    LET i == FirstOf(toks, p, {"{"})
        j == IF i = 0 THEN 0 ELSE FirstOf(toks, i + 1, {"}"})
    IN  IF i = 0 \/ j = 0 THEN <<>>
        ELSE <<<<i, j>>>> \o Blocks(toks, j + 1)

\* re.search(r"\{.*\}", text): the first "{" to the last "}"
GreedyGroup(toks) ==
    LET i == FirstOf(toks, 1, {"{"})
        closes == {j \in 1..Len(toks) : j > i /\ toks[j].k = "}"}
    IN  IF i = 0 \/ closes = {} THEN <<0, 0>>
        ELSE <<i, CHOOSE x \in closes : \A y \in closes : x >= y>>

\* the first block that json.loads accepts (0: none)
FirstParsedBlock(toks, blocks) ==
    LET good(n) == Loads(SubSeq(toks, blocks[n][1], blocks[n][2])).ok
    IN  IF \E n \in 1..Len(blocks) : good(n)
        THEN CHOOSE n \in 1..Len(blocks) : good(n) /\ \A h \in 1..(n - 1) : ~good(h)
        ELSE 0

\* _extract_json_best_effort(text): the object and the stage that gave it;
\* [ok |-> FALSE] stands for the exception it raises
_extract_json_best_effort(toks) ==
    LET fenced == FencedGroup(toks)
        blocks == Blocks(toks, 1)
        hit == FirstParsedBlock(toks, blocks)
        greedy == GreedyGroup(toks)
    IN  IF fenced # <<0, 0>>
        THEN Loads(SubSeq(toks, fenced[1], fenced[2])) @@ [stage |-> "fenced"]
        ELSE IF hit # 0
        THEN Loads(SubSeq(toks, blocks[hit][1], blocks[hit][2])) @@ [stage |-> "blocks"]
        ELSE IF greedy = <<0, 0>>
        THEN [ok |-> FALSE, obj |-> BlankObject, stage |-> "none"]
        ELSE Loads(SubSeq(toks, greedy[1], greedy[2])) @@ [stage |-> "greedy"]

\* extract_json of routes_identify.py: the same three stages
extract_json(toks) == _extract_json_best_effort(toks)

(***************************************************************************)
(* The inputs of the identify model.                                       *)
(***************************************************************************)
V_name == Str(<<"C", "h", "i", "r", "p">>)
V_query == Str(<<"c", "h", "i", "r", "p">>)
V_empty == Str(<<>>)

\* "primary": {...} with the members given
PrimaryTokens(members) == <<TKey("primary"), TOpen>> \o members \o <<TClose>>

GoodPrimary ==
    PrimaryTokens(<<TMember("name", V_name), TMember("canonical_query", V_query),
                    TMember("confidence", Num(90))>>)

\* {"primary": {...}, "candidates": []}
GoodObject == <<TOpen>> \o GoodPrimary \o <<TMember("candidates", EmptyList), TClose>>

\* the texts the model answers with
ModelTexts ==
    { GoodObject,
      \* prose, a fenced block, prose
      <<TProse, TFence, TSpace>> \o GoodObject \o <<TSpace, TFenceEnd, TProse>>,
      \* prose around the object
      <<TProse>> \o GoodObject \o <<TProse>>,
      \* no brace at all
      <<TProse>>,
      \* a fenced block that is not JSON
      <<TFence, TOpen, TProse, TClose, TFenceEnd>>,
      \* a fenced block that is not JSON, then a flat object
      <<TFence, TOpen, TProse, TClose, TFenceEnd, TProse, TOpen,
        TMember("notes", Str(<<"n">>)), TClose>>,
      \* prose with a flat object that has no "primary"
      <<TProse, TOpen, TMember("notes", Str(<<"n">>)), TClose>>,
      \* "name": ""
      <<TOpen>> \o PrimaryTokens(<<TMember("name", V_empty),
                                   TMember("canonical_query", V_query),
                                   TMember("confidence", Num(90))>>)
                \o <<TMember("candidates", EmptyList), TClose>>,
      \* "canonical_query": ""
      <<TOpen>> \o PrimaryTokens(<<TMember("name", V_name),
                                   TMember("canonical_query", V_empty),
                                   TMember("confidence", Num(90))>>)
                \o <<TMember("candidates", EmptyList), TClose>>,
      \* no "canonical_query"
      <<TOpen>> \o PrimaryTokens(<<TMember("name", V_name), TMember("confidence", Num(90))>>)
                \o <<TMember("candidates", EmptyList), TClose>>,
      \* no "name"
      <<TOpen>> \o PrimaryTokens(<<TMember("canonical_query", V_query),
                                   TMember("confidence", Num(90))>>)
                \o <<TClose>>,
      \* "primary" is a string
      <<TOpen, TMember("primary", V_name), TMember("candidates", EmptyList), TClose>>,
      \* no "candidates", and "notes": 7
      <<TOpen>> \o GoodPrimary \o <<TMember("notes", Num(7)), TClose>> }

\* the body of a 2xx answer to generateContent: not JSON, JSON without
\* candidates[0].content.parts[0].text, or JSON with the text
GenerateBodies ==
    {[json |-> FALSE, has_text |-> FALSE, text |-> <<>>],
     [json |-> TRUE, has_text |-> FALSE, text |-> <<>>]}
    \cup {[json |-> TRUE, has_text |-> TRUE, text |-> txt] : txt \in ModelTexts}

\* the "models" of a ListModels answer
ModelLists ==
    {<<>>,
     <<[name |-> TRUE, generate |-> FALSE, flash |-> TRUE]>>,
     <<[name |-> TRUE, generate |-> TRUE, flash |-> FALSE]>>,
     <<[name |-> TRUE, generate |-> TRUE, flash |-> FALSE],
       [name |-> FALSE, generate |-> TRUE, flash |-> TRUE]>>}

(***************************************************************************)
(* identify_from_image and _resolve_model_name (app/core/gemini.py).       *)
(***************************************************************************)
NoExc == [kind |-> "", stage |-> "", status |-> 0, retry_after_seconds |-> Null]

\* every failure of identify_from_image is a ValueError; an httpx error or a
\* JSONDecodeError passes through it
Exc(kind, stage, status) ==
    [kind |-> kind, stage |-> stage, status |-> status, retry_after_seconds |-> Null]

\* _pick_model_from_list: whether it returns a model name
_pick_model_from_list(models) ==
    LET candidates == {i \in 1..Len(models) : models[i].generate}
        flash == {i \in candidates : models[i].flash}
        first(S) == CHOOSE x \in S : \A y \in S : x <= y
    IN  /\ candidates # {}
        /\ models[IF flash # {} THEN first(flash) ELSE first(candidates)].name

\* the last steps of identify_from_image: json.loads(text), or the best-effort
\* extraction, then json.dumps
CleanJson(text) ==
    LET strict == Loads(text)
        found == _extract_json_best_effort(text)
    IN  IF strict.ok THEN [ok |-> TRUE, raw |-> Dumps(strict.obj)]
        ELSE IF found.ok THEN [ok |-> TRUE, raw |-> Dumps(found.obj)]
        ELSE [ok |-> FALSE, raw |-> <<>>]

(***************************************************************************)
(* The /v1/identify handler (app/api/routes_identify.py).                  *)
(***************************************************************************)
\* `try: obj = json.loads(raw_text) except Exception: obj = extract_json(raw_text)`
HandlerLoads(raw) ==
    LET strict == Loads(raw)
        found == extract_json(raw)
    IN  IF strict.ok THEN strict ELSE [ok |-> found.ok, obj |-> found.obj]

\* `"primary" not in obj or not isinstance(obj["primary"], dict)`
PrimaryMissing(obj) == obj.m["primary"].t # "obj"

\* the coercions of "candidates" and "notes"
Coerced(obj) ==
    LET c == obj.m["candidates"]
        n == obj.m["notes"]
    IN  [obj EXCEPT
            !.m["candidates"] = IF c.t = "list" THEN c ELSE EmptyList,
            !.m["notes"] = IF n.t \in {"absent", "null", "str"} THEN n
                           ELSE IF n.t = "num" THEN Str(NatDigits(n.n))
                           ELSE Str(<<"{", "}">>)]

\* ProductCandidate (app/schemas/identify.py): name, canonical_query and
\* confidence are required
ValidProductCandidate(p) ==
    /\ p["name"].t = "str"
    /\ p["canonical_query"].t = "str"
    /\ p["confidence"].t = "num" \/ (p["confidence"].t = "str" /\ AllDigits(p["confidence"].s))

\* IdentifyResponse, the response_model of the route
ValidIdentifyResponse(obj) ==
    /\ obj.m["primary"].t = "obj"
    /\ ValidProductCandidate(obj.sub)
    /\ obj.m["candidates"].t = "list"
    /\ obj.m["notes"].t \in {"absent", "null", "str"}

NoResponse ==
    [status |-> 0, retry_after |-> Null, error |-> "", raw |-> <<>>, obj |-> BlankObject]

\* the three except clauses of identify
ExceptionResponse(e, raw) ==
    IF e.kind = "GeminiRateLimitError"
    THEN [status |-> 429, retry_after |-> e.retry_after_seconds, error |-> "rate_limited",
          raw |-> <<>>, obj |-> BlankObject]
    ELSE IF e.kind = "GeminiRequestError"
    THEN [status |-> 422, retry_after |-> Null, error |-> "gemini_error",
          raw |-> raw, obj |-> BlankObject]
    ELSE [status |-> 422, retry_after |-> Null, error |-> "exception",
          raw |-> raw, obj |-> BlankObject]

\* from raw_text to the answer of the route
HandlerResponse(raw) ==
    LET loaded == HandlerLoads(raw)
        obj == Coerced(loaded.obj)
    IN  IF ~loaded.ok
        THEN ExceptionResponse(Exc("ValueError", "extract_json", 0), raw)
        ELSE IF PrimaryMissing(loaded.obj)
        THEN ExceptionResponse(Exc("ValueError", "primary", 0), raw)
        ELSE IF ~ValidIdentifyResponse(obj)
        THEN \* the framework fails to serialize the return value
             [status |-> 500, retry_after |-> Null, error |-> "response_validation",
              raw |-> <<>>, obj |-> BlankObject]
        ELSE [status |-> 200, retry_after |-> Null, error |-> "", raw |-> raw, obj |-> obj]

(***************************************************************************)
(* One request to /v1/identify, step by step.                              *)
(***************************************************************************)
\* the handler answers and the request is over
IdentifyRespond(e, text, raw, resp) ==
    /\ i_pc' = "done"
    /\ exc' = e
    /\ model_text' = text
    /\ raw_text' = raw
    /\ i_response' = resp
    /\ UNCHANGED <<gemini_cfg, reresolved>>

\* identify_from_image raises e: raw_text is still ""
IdentifyRaise(e) == IdentifyRespond(e, <<>>, <<>>, ExceptionResponse(e, <<>>))

\* _resolve_model_name starts: the test request of the configured model, or
\* ListModels
BeginResolve(cfg) ==
    IF cfg.configured
    THEN /\ CallBegin("post", cfg.max_retries)
         /\ i_pc' = "test_post"
    ELSE /\ CallBegin("get", cfg.max_retries)
         /\ i_pc' = "list_models"

\* the generateContent request with the image
BeginGenerate ==
    /\ CallBegin("post", gemini_cfg.max_retries)
    /\ i_pc' = "generate"

CallEnded == call_pc \in {"returned", "raised"}

\* POST /v1/identify arrives; identify_from_image reads the settings
IdentifyRequest ==
    /\ i_pc = "idle"
    /\ call_pc = "idle"
    /\ \E key \in BOOLEAN, configured \in BOOLEAN, m \in 0..MaxRetriesBound :
          LET cfg == [api_key |-> key, configured |-> configured, max_retries |-> m]
          IN  /\ gemini_cfg' = cfg
              /\ IF ~key
                 THEN /\ i_pc' = "done"
                      /\ exc' = Exc("ValueError", "api_key", 0)
                      /\ i_response' = ExceptionResponse(Exc("ValueError", "api_key", 0), <<>>)
                      /\ UNCHANGED callVars
                 ELSE /\ BeginResolve(cfg)
                      /\ UNCHANGED <<exc, i_response>>
    /\ UNCHANGED <<reresolved, model_text, raw_text, offerVars, errVars>>

\* _resolve_model_name after the test request of the configured model
ResolveAfterTest ==
    /\ i_pc = "test_post"
    /\ CallEnded
    /\ IF call_pc = "raised"
       THEN IdentifyRaise(Exc("httpx.HTTPError", "test_post", 0)) /\ UNCHANGED callVars
       ELSE IF last_resp.status # 404
       THEN IF last_resp.status >= 400
            THEN /\ IdentifyRaise(Exc("ValueError", "test_post", last_resp.status))
                 /\ UNCHANGED callVars
            ELSE /\ BeginGenerate
                 /\ UNCHANGED <<gemini_cfg, reresolved, exc, model_text, raw_text, i_response>>
       ELSE /\ CallBegin("get", gemini_cfg.max_retries)
            /\ i_pc' = "list_models"
            /\ UNCHANGED <<gemini_cfg, reresolved, exc, model_text, raw_text, i_response>>
    /\ UNCHANGED <<offerVars, errVars>>

\* _list_models and _pick_model_from_list
ResolveAfterList ==
    /\ i_pc = "list_models"
    /\ CallEnded
    /\ IF call_pc = "raised"
       THEN IdentifyRaise(Exc("httpx.HTTPError", "list_models", 0)) /\ UNCHANGED callVars
       ELSE IF last_resp.status >= 400
       THEN /\ IdentifyRaise(Exc("ValueError", "list_models", last_resp.status))
            /\ UNCHANGED callVars
       ELSE \/ \* r.json() raises
               /\ IdentifyRaise(Exc("JSONDecodeError", "list_models", 0))
               /\ UNCHANGED callVars
            \/ \E models \in ModelLists :
                  IF _pick_model_from_list(models)
                  THEN /\ BeginGenerate
                       /\ UNCHANGED <<gemini_cfg, reresolved, exc, model_text, raw_text,
                                      i_response>>
                  ELSE /\ IdentifyRaise(Exc("ValueError", "pick_model", 0))
                       /\ UNCHANGED callVars
    /\ UNCHANGED <<offerVars, errVars>>

\* identify_from_image after generateContent, and the rest of the handler
IdentifyAfterGenerate ==
    /\ i_pc = "generate"
    /\ CallEnded
    /\ IF call_pc = "raised"
       THEN IdentifyRaise(Exc("httpx.HTTPError", "generate", 0)) /\ UNCHANGED callVars
       ELSE IF last_resp.status = 404 /\ ~reresolved
       THEN \* re-resolve once and try again
            /\ reresolved' = TRUE
            /\ BeginResolve(gemini_cfg)
            /\ UNCHANGED <<gemini_cfg, exc, model_text, raw_text, i_response>>
       ELSE IF last_resp.status >= 400
       THEN /\ IdentifyRaise(Exc("ValueError", "generate", last_resp.status))
            /\ UNCHANGED callVars
       ELSE /\ UNCHANGED callVars
            /\ \E body \in GenerateBodies :
                  IF ~body.json
                  THEN IdentifyRaise(Exc("JSONDecodeError", "body", 0))
                  ELSE IF ~body.has_text
                  THEN IdentifyRaise(Exc("ValueError", "shape", 0))
                  ELSE LET clean == CleanJson(body.text)
                       IN  IF ~clean.ok
                           THEN IdentifyRespond(Exc("ValueError", "clean_json", 0), body.text,
                                    <<>>, ExceptionResponse(Exc("ValueError", "clean_json", 0),
                                                            <<>>))
                           ELSE IdentifyRespond(NoExc, body.text, clean.raw,
                                                HandlerResponse(clean.raw))
    /\ UNCHANGED <<offerVars, errVars>>

IdentifyInit ==
    /\ i_pc = "idle"
    /\ gemini_cfg = [api_key |-> FALSE, configured |-> FALSE, max_retries |-> 0]
    /\ reresolved = FALSE
    /\ exc = NoExc
    /\ model_text = <<>>
    /\ raw_text = <<>>
    /\ i_response = NoResponse

IdentifyNext ==
    \/ IdentifyRequest
    \/ _post_with_retry
    \/ _get_with_retry
    \/ TransportFailure
    \/ ResolveAfterTest
    \/ ResolveAfterList
    \/ IdentifyAfterGenerate

(***************************************************************************)
(* The text of the errors.  Every place of the two paths that raises with  *)
(* text taken from the upstream (the request URL, the body of the answer)  *)
(* is followed from the upstream's answer to the detail of the HTTP error  *)
(* the caller receives.                                                    *)
(***************************************************************************)
\* settings.GEMINI_API_KEY and settings.SERPAPI_API_KEY
GEMINI_API_KEY == <<"G", "k">>
SERPAPI_API_KEY == <<"S", "k">>

T_key_eq == <<"k", "e", "y", "=">>
T_REDACTED == <<"R", "E", "D", "A", "C", "T", "E", "D">>

RECURSIVE RedactFrom(_, _)
\* re.sub(r"(key=)([^&\s]+)", r"\1REDACTED", s), from position i of s on
RedactFrom(s, i) ==
    IF i > Len(s) THEN <<>>
    ELSE IF /\ i + 4 <= Len(s)
            /\ SubSeq(s, i, i + 3) = T_key_eq
            /\ s[i + 4] \notin WhiteSpace \cup {"&"}
    THEN T_key_eq \o T_REDACTED
            \o RedactFrom(s, RunEnd(s, i + 4, {s[j] : j \in 1..Len(s)} \ (WhiteSpace \cup {"&"})))
    ELSE <<s[i]>> \o RedactFrom(s, i + 1)

_redact_key(s) == IF s = <<>> THEN s ELSE RedactFrom(s, 1)

\* s[:2000]
BodyLimit == 2000
Clip(s) == SubSeq(s, 1, Min(Len(s), BodyLimit))

\* str(r.request.url) of a Gemini request: the key is the query parameter "key"
GeminiUrl == <<"g", "/", "m", "?">> \o T_key_eq \o GEMINI_API_KEY

\* the pieces an upstream body is made of: text, a separator, and the
\* credential as the upstream saw it in the request's query string
BodyPieces(key_param) == {<<"e">>, <<" ">>, <<"&">>, key_param}

RECURSIVE Flatten(_)
Flatten(pieces) == IF pieces = <<>> THEN <<>> ELSE pieces[1] \o Flatten(Tail(pieces))

\* the bodies of at most MaxPieces pieces
MaxPieces == 3
Bodies(key_param) == {Flatten(p) : p \in SeqsUpTo(BodyPieces(key_param), MaxPieces)}

GeminiBodies == Bodies(T_key_eq \o GEMINI_API_KEY)
SerpApiBodies == Bodies(<<"a", "p", "i", "_">> \o T_key_eq \o SERPAPI_API_KEY)

ErrorStatuses == {400, 403, 404, 429, 500, 503}

\* the texts of the messages, shortened
M_ListModels == <<"L", ":">>
M_ModelTest == <<"T", ":">>
M_Request == <<"F", ":">>
M_Shape == <<"U", ":">>
M_SerpRequest == <<"S", ":">>
M_SerpError == <<"E", ":">>
M_URL == <<"\n", "U", "R", "L", ":", "\n">>
M_BODY == <<"\n", "B", "O", "D", "Y", ":", "\n">>
M_RAW == <<"\n", "\n", "R", "A", "W", ":", "\n">>

\* an exception is raised with message msg on the path ("identify"|"offers")
ErrRaise(path, site, status, body, msg) ==
    /\ e_pc' = "raised"
    /\ e_path' = path
    /\ e_site' = site
    /\ e_status' = status
    /\ e_body' = body
    /\ e_message' = msg
    /\ UNCHANGED e_detail
    /\ UNCHANGED <<callVars, offerVars, identVars>>

\* _list_models: `raise ValueError(f"Gemini ListModels failed: ...")`
ListModelsFails ==
    /\ e_pc = "idle"
    /\ \E status \in ErrorStatuses, body \in GeminiBodies :
           ErrRaise("identify", "list_models", status, body,
                    M_ListModels \o NatDigits(status) \o M_BODY \o Clip(_redact_key(body)))

\* _resolve_model_name: `raise ValueError(f"Gemini model test failed: ...")`
ModelTestFails ==
    /\ e_pc = "idle"
    /\ \E status \in ErrorStatuses \ {404}, body \in GeminiBodies :
           ErrRaise("identify", "test_post", status, body,
                    M_ModelTest \o NatDigits(status) \o M_BODY \o Clip(_redact_key(body)))

\* identify_from_image: `raise ValueError(f"Gemini request failed: ...")`
GenerateFails ==
    /\ e_pc = "idle"
    /\ \E status \in ErrorStatuses, body \in GeminiBodies :
           ErrRaise("identify", "generate", status, body,
                    M_Request \o NatDigits(status) \o M_URL \o _redact_key(GeminiUrl)
                       \o M_BODY \o Clip(_redact_key(body)))

\* identify_from_image: `raise ValueError(f"Unexpected Gemini response shape;
\* raw={json.dumps(data)[:2000]}")`
ShapeFails ==
    /\ e_pc = "idle"
    /\ \E body \in GeminiBodies :
           ErrRaise("identify", "shape", 200, body, M_Shape \o Clip(body))

\* shopping_search / google_search: `raise ValueError(f"SerpAPI request
\* failed: {r.status_code}\nBODY:\n{r.text}")`
SerpApiRequestFails ==
    /\ e_pc = "idle"
    /\ \E status \in ErrorStatuses, body \in SerpApiBodies :
           ErrRaise("offers", "serpapi_status", status, body,
                    M_SerpRequest \o NatDigits(status) \o M_BODY \o body)

\* shopping_search / google_search: `raise ValueError(f"SerpAPI error:
\* {data.get('error')}")`; the body stands for the "error" member
SerpApiErrorField ==
    /\ e_pc = "idle"
    /\ \E body \in SerpApiBodies \ {<<>>} :
           ErrRaise("offers", "serpapi_error", 200, body, M_SerpError \o body)

\* identify: `except Exception as e: raise HTTPException(status_code=422,
\* detail=f"{e}\n\nRAW:\n{raw_text}")`; raw_text is still ""
IdentifyExcept ==
    /\ e_pc = "raised"
    /\ e_path = "identify"
    /\ e_pc' = "answered"
    /\ e_detail' = e_message \o M_RAW
    /\ UNCHANGED <<e_path, e_site, e_status, e_body, e_message>>
    /\ UNCHANGED <<callVars, offerVars, identVars>>

\* offers: `except Exception as e: raise HTTPException(status_code=422,
\* detail=str(e))`
OffersExcept ==
    /\ e_pc = "raised"
    /\ e_path = "offers"
    /\ e_pc' = "answered"
    /\ e_detail' = e_message
    /\ UNCHANGED <<e_path, e_site, e_status, e_body, e_message>>
    /\ UNCHANGED <<callVars, offerVars, identVars>>

ErrInit ==
    /\ e_pc = "idle"
    /\ e_path = ""
    /\ e_site = ""
    /\ e_status = 0
    /\ e_body = <<>>
    /\ e_message = <<>>
    /\ e_detail = <<>>

ErrNext ==
    \/ ListModelsFails
    \/ ModelTestFails
    \/ GenerateFails
    \/ ShapeFails
    \/ SerpApiRequestFails
    \/ SerpApiErrorField
    \/ IdentifyExcept
    \/ OffersExcept

(***************************************************************************)
(* Claim about the text of the errors.                                     *)
(***************************************************************************)
\* Claim C11: no error detail that reaches the caller of identify or offers
\* contains an API credential (the Gemini key, the SerpAPI api_key).
C11_NoCredentialInErrors ==
    e_pc = "answered" =>
        /\ ~Contains(e_detail, GEMINI_API_KEY)
        /\ ~Contains(e_detail, SERPAPI_API_KEY)

(***************************************************************************)
(* Claims about the resilient caller (checked under SpecCall).             *)
(***************************************************************************)
All429(h) == \A i \in 1..Len(h) : h[i].status = 429

\* C1: one call of _post_with_retry / _get_with_retry issues at most
\* max_retries + 1 requests: while it may still issue one it has issued at most
\* max_retries, and when it returns it returns the response of its last request.
C1_AttemptsBounded ==
    /\ requests <= max_retries + 1
    /\ call_pc = "attempt" => requests <= max_retries
    /\ call_pc = "returned" =>
          /\ requests >= 1
          /\ Len(history) = requests
          /\ last_resp = history[Len(history)]

\* a call that used the whole ceiling: max_retries + 1 requests, then returned
C1_Witness ==
    /\ call_pc = "returned"
    /\ max_retries >= 1
    /\ requests = max_retries + 1

\* C2: k <= max_retries rate-limit (429) responses do not end the call, so a
\* success that follows them is what the call returns; more than max_retries
\* rate-limit responses end it with the last 429 response, headers included.
C2_RateLimitOutcome ==
    /\ (call_pc \in {"attempt", "returned"} /\ All429(history)
          /\ Len(history) <= max_retries) => call_pc = "attempt"
    /\ (call_pc = "returned" /\ Len(history) >= 1
          /\ All429(SubSeq(history, 1, Len(history) - 1))
          /\ history[Len(history)].status = 200) =>
             /\ Len(history) - 1 <= max_retries
             /\ last_resp.status = 200
    /\ (call_pc \in {"attempt", "returned"} /\ All429(history)
          /\ Len(history) > max_retries) =>
             /\ call_pc = "returned"
             /\ last_resp.status = 429
             /\ last_resp = history[Len(history)]

\* max_retries rate-limit responses, then a success, which is returned
C2_Witness ==
    /\ call_pc = "returned"
    /\ max_retries >= 1
    /\ Len(history) = max_retries + 1
    /\ All429(SubSeq(history, 1, max_retries))
    /\ last_resp.status = 200

\* Claim C12: a response with an error status other than 429 and 503 ends the
\* call at once: it is the last response of the call, the call has returned
\* it, and no request follows it, whatever the retries remaining.
C12_OtherErrorsReturnAtOnce ==
    \A i \in 1..Len(history) :
        (history[i].status >= 400 /\ history[i].status \notin {429, 503}) =>
            /\ i = Len(history)
            /\ call_pc = "returned"
            /\ requests = i
            /\ last_resp = history[i]

\* a 500 on the first attempt of a call that had retries left
C12_Witness ==
    /\ call_pc = "returned"
    /\ max_retries >= 1
    /\ requests = 1
    /\ last_resp.status = 500

(***************************************************************************)
(* Claims about the /v1/offers aggregation (checked under SpecOffers).     *)
(***************************************************************************)
OffersEnded == o_pc \in {"done", "error"}

\* the offers of the primary search, normalized
PrimaryOffers == NormalizeRows(base_results).offers

\* C4: with include_membership set and no Costco source among the primary
\* offers, the returned list holds a Costco entry, whatever the supplementary
\* searches answered.
C4_PriorityGuarantee ==
    (OffersEnded /\ failed_at \notin {"primary", "normalize"}
        /\ include_membership /\ ~HasCostco(PrimaryOffers)) =>
            /\ o_response.status = 200
            /\ \E i \in 1..Len(o_response.offers) : IsCostco(o_response.offers[i])

\* C5: a supplementary search that raises does not fail the request: the answer
\* is a normal one that holds a Costco entry.
C5_SupplementaryNonFatal ==
    failed_at \in {"costco_shopping", "costco_web"} =>
        /\ o_response.status = 200
        /\ \E i \in 1..Len(o_response.offers) : IsCostco(o_response.offers[i])

Priced(o) == o.price_value.t # "null"

\* the positions of offers_list that share the dedupe key of offer o
KeyGroup(o) ==
    {i \in 1..Len(offers_list) : _key_for_dedupe(offers_list[i]) = _key_for_dedupe(o)}

SetMin(S) == CHOOSE x \in S : \A y \in S : x <= y

\* the position of the offer the claim says survives its group
Survivor(G) ==
    IF \E i \in G : Priced(offers_list[i])
    THEN SetMin({i \in G : Priced(offers_list[i])})
    ELSE SetMin(G)

\* C6: after the dedupe there is exactly one offer per dedupe key, and it is the
\* first-seen priced offer of its key group, or the first-seen one when the
\* group has no priced offer.
C6_DedupeSurvivor ==
    o_pc = "done" =>
        /\ \A a, b \in 1..Len(deduped) :
              a # b => _key_for_dedupe(deduped[a]) # _key_for_dedupe(deduped[b])
        /\ \A i \in 1..Len(offers_list) :
              \E a \in 1..Len(deduped) :
                  _key_for_dedupe(deduped[a]) = _key_for_dedupe(offers_list[i])
        /\ \A a \in 1..Len(deduped) :
              /\ KeyGroup(deduped[a]) # {}
              /\ deduped[a] = offers_list[Survivor(KeyGroup(deduped[a]))]

\* an unpriced offer, then two different priced ones, all with one link: the
\* first priced one is kept
C6_Witness ==
    /\ o_pc = "done"
    /\ \E i, j, k \in 1..Len(offers_list) :
          /\ i < j /\ j < k
          /\ Truthy(offers_list[i].link)
          /\ offers_list[i].link = offers_list[j].link
          /\ offers_list[j].link = offers_list[k].link
          /\ ~Priced(offers_list[i])
          /\ Priced(offers_list[j]) /\ Priced(offers_list[k])
          /\ offers_list[j] # offers_list[k]
          /\ \E a \in 1..Len(deduped) : deduped[a] = offers_list[j]

\* title and source as the claim compares them: trimmed and lower-cased
SameListing(x, y) ==
    /\ ~Truthy(x.link) /\ ~Truthy(y.link)
    /\ Lower(Strip(OrEmpty(x.title))) = Lower(Strip(OrEmpty(y.title)))
    /\ Lower(Strip(OrEmpty(x.source))) = Lower(Strip(OrEmpty(y.source)))

\* C7: offers without a link whose title and source are equal after trimming
\* and lower-casing collapse to one offer, whatever their other fields.
C7_LinklessCollapse ==
    o_pc = "done" =>
        /\ \A a, b \in 1..Len(deduped) : SameListing(deduped[a], deduped[b]) => a = b
        /\ \A a, b \in 1..Len(o_response.offers) :
              SameListing(o_response.offers[a], o_response.offers[b]) => a = b
        /\ \A i \in 1..Len(offers_list) :
              ~Truthy(offers_list[i].link) =>
                  \E a \in 1..Len(deduped) : SameListing(deduped[a], offers_list[i])

\* two linkless offers with different titles as written and different ratings
\* were collected, and one of them is left
C7_Witness ==
    /\ o_pc = "done"
    /\ \E i, j \in 1..Len(offers_list) :
          /\ i # j
          /\ SameListing(offers_list[i], offers_list[j])
          /\ offers_list[i].title # offers_list[j].title
          /\ offers_list[i].rating # offers_list[j].rating
          /\ Cardinality({a \in 1..Len(deduped) :
                             SameListing(deduped[a], offers_list[i])}) = 1

\* C8: the returned offers are in non-decreasing order of price_value, and no
\* offer without a price_value comes before one that has one.
C8_SortedByPrice ==
    o_pc = "done" =>
        \A i, j \in 1..Len(o_response.offers) :
            i < j =>
                LET x == o_response.offers[i]
                    y == o_response.offers[j]
                IN  /\ ~Priced(x) => ~Priced(y)
                    /\ (Priced(x) /\ Priced(y)) => x.price_value.n <= y.price_value.n

\* the dedupe left an unpriced offer ahead of a dearer and a cheaper priced one,
\* and all three are returned
C8_Witness ==
    /\ o_pc = "done"
    /\ Len(o_response.offers) >= 3
    /\ Len(deduped) >= 3
    /\ ~Priced(deduped[1])
    /\ Priced(deduped[2]) /\ Priced(deduped[3])
    /\ deduped[3].price_value.n < deduped[2].price_value.n

\* the answer for the collected offers taken in another order
AnswerFor(list) == Truncate(SortOffers(Dedupe(list)), num)

\* C9: the returned list does not depend on the order in which the offers were
\* collected: price ties are broken by title.
C9_OrderIndependent ==
    o_pc = "done" =>
        \A p \in Permutations(1..Len(offers_list)) :
            AnswerFor([i \in 1..Len(offers_list) |-> offers_list[p[i]]]) = o_response.offers

\* the link of an offer, lower-cased and trimmed
CanonicalLink(o) == Lower(Strip(o.link.s))

\* Claim C13: two offers whose links differ only in letter case or in
\* surrounding white space have the same dedupe key, and at most one of them
\* is in the deduplicated list.
C13_LinkKeyCanonical ==
    o_pc = "done" =>
        \A i, j \in 1..Len(offers_list) :
            (/\ Truthy(offers_list[i].link)
             /\ Truthy(offers_list[j].link)
             /\ CanonicalLink(offers_list[i]) = CanonicalLink(offers_list[j])) =>
                /\ _key_for_dedupe(offers_list[i]) = _key_for_dedupe(offers_list[j])
                /\ \A a, b \in 1..Len(deduped) :
                      (deduped[a].link = offers_list[i].link
                          /\ deduped[b].link = offers_list[j].link) => a = b

\* the part of C13 the code keeps: links that differ only in surrounding
\* white space have the same key
LinkKeyTrimmed ==
    o_pc = "done" =>
        \A i, j \in 1..Len(base_results) :
            LET a == Get(base_results[i], "link")
                b == Get(base_results[j], "link")
            IN  (a.t = "str" /\ b.t = "str" /\ Strip(a.s) = Strip(b.s) /\ Strip(a.s) # <<>>) =>
                    _key_for_dedupe(offers_list[i]) = _key_for_dedupe(offers_list[j])

\* Claim C14: with include_membership set, every offer of the priority source
\* (Costco) comes before every offer of another source in the returned list,
\* whatever their prices.
C14_PriorityRankFirst ==
    (o_pc = "done" /\ include_membership) =>
        \A i, j \in 1..Len(o_response.offers) :
            (IsCostco(o_response.offers[j]) /\ ~IsCostco(o_response.offers[i])) => j < i

\* the list after the Costco injection, the dedupe and the sort
Candidates == SortOffers(Dedupe(offers_list))

\* whether list a is the first Len(a) elements of list b
IsPrefix(a, b) == Len(a) <= Len(b) /\ a = SubSeq(b, 1, Len(a))

\* Claim C15, as stated: the returned list has at most num offers and is a
\* prefix of the list obtained after injection, dedupe and ranking.
C15_AtMostRequested ==
    o_pc = "done" =>
        /\ Len(o_response.offers) <= num
        /\ IsPrefix(o_response.offers, Candidates)

\* Claim C15, amended: truncation is the last step, and the count is the
\* requested one clamped to 1..50: the returned list is the first
\* max(1, min(num, 50)) offers (all of them when there are fewer) of the list
\* obtained after injection, dedupe and ranking.
C15_TruncationLast ==
    o_pc = "done" =>
        LET n == IF num < 1 THEN 1 ELSE IF num > 50 THEN 50 ELSE num
        IN  /\ IsPrefix(o_response.offers, Candidates)
            /\ Len(o_response.offers) = Min(n, Len(Candidates))

\* the truncation cut the list, and the list it cut was not in input order
C15_Witness ==
    /\ o_pc = "done"
    /\ Len(o_response.offers) < Len(Candidates)
    /\ ~IsPrefix(o_response.offers, offers_list)

\* the row has a non-empty title
HasTitle(r) == Get(r, "title").t = "str" /\ Strip(Get(r, "title").s) # <<>>

\* Claim C16: a primary row without a non-empty title yields no offer: the
\* returned list holds no offer built from such a row, so no offer carries a
\* placeholder title.
C16_TitlelessRowRejected ==
    o_pc = "done" =>
        \A i \in 1..Len(base_results) :
            ~HasTitle(base_results[i]) =>
                \A j \in 1..Len(o_response.offers) :
                    /\ o_response.offers[j] # RowOffer(base_results[i]).item
                    /\ o_response.offers[j].title.s # T_Unknown

\* Claim C17: for every offer built from a primary row whose display price
\* holds a numeric token, price_value is the value _parse_price_value reads
\* from the display price, also when the row has a numeric extracted_price.
C17_PriceValueFromDisplay ==
    o_pc = "done" =>
        \A i \in 1..Len(base_results) :
            LET parsed == _parse_price_value(Get(base_results[i], "price"))
            IN  parsed.t = "num" =>
                    /\ offers_list[i].price = Get(base_results[i], "price")
                    /\ offers_list[i].price_value = parsed

\* Claim C18: a primary row that OfferItem does not accept (here a row with
\* "title": null) does not abort the aggregation: the request still ends with
\* a normal result.
C18_BadRowNonFatal ==
    (OffersEnded /\ \E i \in 1..Len(base_results) : ~RowOffer(base_results[i]).ok) =>
        /\ o_response.status = 200
        /\ failed_at # "normalize"

(***************************************************************************)
(* Claims about /v1/identify.                                              *)
(***************************************************************************)
\* the generateContent call of this request ended with 429 on every attempt
\* up to the ceiling
GenerateRateLimited ==
    /\ i_pc = "done"
    /\ exc.stage = "generate"
    /\ call_pc = "returned"
    /\ Len(history) = gemini_cfg.max_retries + 1
    /\ All429(history)

\* Claim C3: when the generateContent call ends rate-limited (429 on every
\* attempt up to the ceiling), the route answers 429, with the retry hint of
\* the last response when it carries one, and not the 422 of the other
\* failures.
C3_RateLimitDistinct ==
    GenerateRateLimited =>
        /\ i_response.status = 429
        /\ last_resp.retry_after # <<>> /\ AllDigits(last_resp.retry_after)
              => i_response.retry_after # Null

\* the members of "primary" in the object the handler recovered from raw_text
RecoveredPrimary == HandlerLoads(raw_text).obj.sub

NonEmptyStr(v) == v.t = "str" /\ v.s # <<>>

\* the handler recovered an object from the model's text
Recovered == i_pc = "done" /\ exc = NoExc /\ HandlerLoads(raw_text).ok

\* Claim C10: identify answers 200 only if the recovered object has a
\* non-empty primary.name and a non-empty primary.canonical_query; when
\* either is absent or empty the route answers the client error (422) that
\* carries the raw text.
C10_PrimaryValidated ==
    Recovered =>
        IF NonEmptyStr(RecoveredPrimary["name"])
              /\ NonEmptyStr(RecoveredPrimary["canonical_query"])
        THEN TRUE
        ELSE /\ i_response.status = 422
             /\ i_response.raw = raw_text

\* the stages of the extraction, each on its own: the object it yields, if any
StageWhole(text) == Loads(text)

StageFenced(text) ==
    LET g == FencedGroup(text)
    IN  IF g = <<0, 0>> THEN [ok |-> FALSE, obj |-> BlankObject]
        ELSE Loads(SubSeq(text, g[1], g[2]))

StageBlocks(text) ==
    LET blocks == Blocks(text, 1)
        hit == FirstParsedBlock(text, blocks)
    IN  IF hit = 0 THEN [ok |-> FALSE, obj |-> BlankObject]
        ELSE Loads(SubSeq(text, blocks[hit][1], blocks[hit][2]))

StageGreedy(text) ==
    LET g == GreedyGroup(text)
    IN  IF g = <<0, 0>> THEN [ok |-> FALSE, obj |-> BlankObject]
        ELSE Loads(SubSeq(text, g[1], g[2]))

\* the result of the first stage that yields a parseable object
FirstStageThatParses(text) ==
    IF StageWhole(text).ok THEN StageWhole(text)
    ELSE IF StageFenced(text).ok THEN StageFenced(text)
    ELSE IF StageBlocks(text).ok THEN StageBlocks(text)
    ELSE StageGreedy(text)

\* Claim C19: the extraction returns the object of the first of the stages
\* whole-text parse, fenced block, non-greedy scan, greedy match that yields
\* a parseable object, a stage whose candidate does not parse falling through
\* to the next; it fails only if every stage fails.
C19_StagesFallThrough ==
    (i_pc = "done" /\ model_text # <<>>) =>
        LET want == FirstStageThatParses(model_text)
            got == CleanJson(model_text)
        IN  /\ got.ok = want.ok
            /\ got.ok => got.raw = Dumps(want.obj)
            /\ got.ok = (exc = NoExc)

Init == CallInit /\ OffersInit /\ IdentifyInit /\ ErrInit

SpecCall == Init /\ [][CallNext]_vars

SpecOffers == Init /\ [][OffersNext]_vars

SpecIdentify == Init /\ [][IdentifyNext]_vars

SpecErrors == Init /\ [][ErrNext]_vars

====
